---- MODULE Spec2Model ----
(***************************************************************************)
(* netxml2kml (snippet.py): the streaming ingestion of Kismet netxml files *)
(* into the network store, the encryption classifier, the route segmenter  *)
(* and the KML output, as state machines; and the cache decorator of       *)
(* 2431447/snippet.py.                                                     *)
(*                                                                         *)
(* Python strings that the code inspects (character data, BSSIDs,          *)
(* encryption tokens) are sequences of one-character strings, so that      *)
(* strip(), startswith(), int() and float() are computed, not assumed.     *)
(* Element and attribute names are only compared, and are TLA+ strings.    *)
(* Python objects that the code shares by reference (WirelessNetwork       *)
(* instances and their gps dictionaries) live in a heap and are named by   *)
(* their index.                                                            *)
(***************************************************************************)
EXTENDS Integers, Sequences, FiniteSets, TLC

VARIABLES
    pc,         \* where netxml.main is: "main", "parse", "aborted", "done"
    argi,       \* number of command-line arguments already consumed
    networks,   \* self.networks: bssid -> heap index of a WirelessNetwork
    objs,       \* heap of WirelessNetwork instances
    gpsd,       \* heap of gps dictionaries (WirelessNetwork.gps refers to one)
    parser,     \* self.parser, the per-file dictionary of parser globals
    xml,        \* the expat tokenizer: open elements and whether the root was seen
    nev,        \* elements fed so far in the run (bounds the model)
    err,        \* the exception that ended the process, "" if none
    before,     \* the store, by value, when the file being parsed was opened
    invalid,    \* arguments reported by "Invalid name"
    ssidIn,     \* classifier: wn.ssid, the SSID records of the network classified
    encryption, \* classifier: what wn.get_from_ssid('encryption') returned
    crypt,      \* classifier: what categorize_encryption returned, "" before
    cpc,        \* classifier: "start", "read" or "done"
    route,      \* output_kml_route: its argument, second -> <<lat, lon>>
    todo,       \* output_kml_route: the seconds the loop has still to visit
    output,     \* output_kml_route: the list of output strings
    num,        \* output_kml_route: the number of the current route
    last_second, \* output_kml_route: the second visited last
    rpc,        \* output_kml_route: "start", "loop" or "done"
    disable_names, \* self.disable_names, the option --disable-names
    visit,      \* output_kml_fill_folders: the keys of self.networks still to visit
    folders,    \* output_kml_fill_folders: category -> the placemarks formatted
    count,      \* output_kml: category -> the number of networks counted
    target,     \* output_kml: what target.add has received, in order
    kpc,        \* output_kml: "start", "fill", "folders", "route", "done", "" when not called
    backend,    \* cached: the kind of cache backend, "dict" or "dummy"
    stored,     \* cached: what the backend holds, unique key -> value
    args,       \* cached: the argument of the call of inner in progress
    value,      \* cached: the local `value` of inner
    ipc,        \* cached: where inner is: "idle", "invoke", "set", "return"
    trace,      \* cached: the calls inner made to the backend and to fn, this call
    invocations, \* cached: unique key -> how often fn was invoked under it
    calls       \* cached: argument -> how often inner was called with it

ingestVars == <<pc, argi, networks, objs, gpsd, parser, xml, nev, err, before, invalid>>

classVars == <<ssidIn, encryption, crypt, cpc>>

routeVars == <<route, todo, output, num, last_second, rpc>>

renderVars == <<disable_names, visit, folders, count, target, kpc>>

cacheVars == <<backend, stored, args, value, ipc, trace, invocations, calls>>

vars == <<ingestVars, classVars, routeVars, renderVars, cacheVars>>

\* what the steps of the ingestion leave alone
ingestOthers == <<classVars, routeVars, renderVars, cacheVars>>

\* what the steps of the classifier leave alone
classOthers == <<ingestVars, routeVars, renderVars, cacheVars>>

\* what the steps of the route output leave alone
routeOthers == <<ingestVars, classVars, renderVars, cacheVars>>

\* what the steps of output_kml leave alone, the route apart
renderOthers == <<ingestVars, classVars, cacheVars>>

\* what the steps of a cached function leave alone: the converter
cacheOthers == <<ingestVars, classVars, routeVars, renderVars>>

----------------------------------------------------------------------------
(* Bounds of the model *)

\* file arguments of one run
NumArgs == 3
\* elements opened in one run, when the files are fed event by event
MaxElements == 4
\* nesting depth of the elements
MaxDepth == 3
\* wireless-network elements in one run, when the files are fed network by network
MaxNetworks == 3

----------------------------------------------------------------------------
(* Python values *)

EmptyMap == [x \in {} |-> 0]

Put(f, k, v) == [x \in (DOMAIN f) \cup {k} |-> IF x = k THEN v ELSE f[x]]

Whitespace == {" ", "\t", "\n", "\r"}

Digits == <<"0", "1", "2", "3", "4", "5", "6", "7", "8", "9">>

IsDigit(c) == \E i \in 1..10 : Digits[i] = c

DigitVal(c) == (CHOOSE i \in 1..10 : Digits[i] = c) - 1

RECURSIVE LStrip(_)
LStrip(s) == IF s # <<>> /\ Head(s) \in Whitespace THEN LStrip(Tail(s)) ELSE s

RECURSIVE RStrip(_)
RStrip(s) ==
    IF s # <<>> /\ s[Len(s)] \in Whitespace THEN RStrip(SubSeq(s, 1, Len(s) - 1)) ELSE s

\* str.strip()
Strip(s) == RStrip(LStrip(s))

\* whether int(data) / float(data) accept the string (digits, surrounding blanks allowed)
IsNumeric(s) == Strip(s) # <<>> /\ \A i \in 1..Len(Strip(s)) : IsDigit(Strip(s)[i])

RECURSIVE DecVal(_)
DecVal(s) == IF s = <<>> THEN 0 ELSE 10 * DecVal(SubSeq(s, 1, Len(s) - 1)) + DigitVal(s[Len(s)])

\* int(data), and float(data) for these whole numbers
ToNumber(s) == DecVal(Strip(s))

----------------------------------------------------------------------------
(* class WirelessNetwork *)

\* WirelessNetwork.__init__: a new instance; its gps dictionary is heap cell g
WirelessNetwork(type, firsttime, lasttime, g) ==
    [type |-> type, firsttime |-> firsttime, lasttime |-> lasttime,
     bssid |-> <<>>, manuf |-> <<>>, ssid |-> <<>>, channel |-> 0, gps |-> g]

\* update, were it to merge the SSID observations of the new record as well
update_merging_ssid(os, gs, self, new) ==
    IF Cardinality(DOMAIN gs[os[self].gps]) = 0 /\ Cardinality(DOMAIN gs[os[new].gps]) > 0
    THEN [os EXCEPT ![self].gps = os[new].gps, ![self].ssid = @ \o os[new].ssid]
    ELSE [os EXCEPT ![self].ssid = @ \o os[new].ssid]

\* update, were it to take the new gps without looking at its own
update_overwriting_gps(os, gs, self, new) ==
    IF Cardinality(DOMAIN gs[os[new].gps]) > 0
    THEN [os EXCEPT ![self].gps = os[new].gps]
    ELSE os

\* update, were it to take the new record's type and times along with the gps
update_last_seen_wins(os, gs, self, new) ==
    IF Cardinality(DOMAIN gs[os[self].gps]) = 0 /\ Cardinality(DOMAIN gs[os[new].gps]) > 0
    THEN [os EXCEPT ![self].gps = os[new].gps, ![self].type = os[new].type,
                    ![self].firsttime = os[new].firsttime,
                    ![self].lasttime = os[new].lasttime]
    ELSE os

\* WirelessNetwork.update(self, new) on heap `os` with gps heap `gs`:
\* the heap after the call (only self.gps may be rebound, to new's dictionary)
update(os, gs, self, new) ==
    IF Cardinality(DOMAIN gs[os[self].gps]) = 0 /\ Cardinality(DOMAIN gs[os[new].gps]) > 0
    THEN [os EXCEPT ![self].gps = os[new].gps]
    ELSE os

\* a WirelessNetwork instance by value: its gps reference replaced by the dictionary
RecordValue(os, gs, i) == [os[i] EXCEPT !.gps = gs[os[i].gps]]

\* self.networks by value
StoreValue(nets, os, gs) == [k \in DOMAIN nets |-> RecordValue(os, gs, nets[k])]

\* the instances and dictionaries that a reference reaches: the store's values
\* and self.parser["wn"]; the gps dictionaries of those
LiveObjs(s) ==
    {s.networks[k] : k \in DOMAIN s.networks}
    \cup (IF s.parser.wn = 0 THEN {} ELSE {s.parser.wn})

LiveGps(s) == {s.objs[i].gps : i \in LiveObjs(s)}

Max(S) == IF S = {} THEN 0 ELSE CHOOSE x \in S : \A y \in S : y <= x

\* the lowest heap cell not in use: memory freed is used again
FreeCell(live) == CHOOSE i \in 1..(Max(live) + 1) : i \notin live /\ \A j \in 1..(i - 1) : j \in live

\* the heap cell i holds v
Store(heap, i, v) == IF i = Len(heap) + 1 THEN Append(heap, v) ELSE [heap EXCEPT ![i] = v]

\* a cell that no reference reaches
Freed == [type |-> "", firsttime |-> <<>>, lasttime |-> <<>>,
          bssid |-> <<>>, manuf |-> <<>>, ssid |-> <<>>, channel |-> 0, gps |-> 0]

\* reference counting: an instance or dictionary that no reference reaches is freed
Collect(s) ==
    [s EXCEPT
       !.objs = [i \in 1..Max(LiveObjs(s)) |-> IF i \in LiveObjs(s) THEN s.objs[i] ELSE Freed],
       !.gpsd = [i \in 1..Max(LiveGps(s)) |-> IF i \in LiveGps(s) THEN s.gpsd[i] ELSE EmptyMap]]

----------------------------------------------------------------------------
(* netxml.parse and its expat handlers, as functions of the converter's    *)
(* state s = [networks, objs, gpsd, parser, xml, err]. A handler that      *)
(* raises returns s with err set and nothing else changed: every raise in  *)
(* the handlers precedes the handler's first assignment.                   *)

NoSsid == [st |-> "None", encryption |-> {}, fields |-> EmptyMap]

\* self.parser as netxml.parse creates it (wn 0 is None)
NewParser ==
    [update |-> 0, new |-> 0, laststart |-> "", parents |-> <<>>, wn |-> 0, ssid |-> NoSsid]

\* a fresh expat parser: no element open, no root element seen
NewXml == [open |-> <<>>, root |-> FALSE]

NetAttrs == {"type", "first-time", "last-time"}

SsidFields == {"type", "ssid", "essid", "max-rate", "packets", "beaconrate", "info"}

Raise(s, exc) == [s EXCEPT !.err = exc]

\* the KeyError of attrs["type"], attrs["first-time"], attrs["last-time"], read in
\* this order
MissingAttr(attrs) ==
    IF "type" \notin DOMAIN attrs THEN "KeyError: 'type'"
    ELSE IF "first-time" \notin DOMAIN attrs THEN "KeyError: 'first-time'"
    ELSE "KeyError: 'last-time'"

\* the exception of using self.parser["ssid"] when it is not a dictionary
SsidError(s) == IF s.parser.ssid.st = "None" THEN "TypeError" ELSE "KeyError: 'ssid'"

\* the push, were it to append the element at the end of parents
Push_appending(p, name) == [p EXCEPT !.parents = @ \o <<p.laststart>>, !.laststart = name]

\* self.parser["parents"].insert(0, laststart); self.parser["laststart"] = name
Push(p, name) == [p EXCEPT !.parents = <<p.laststart>> \o @, !.laststart = name]

\* self.parser["laststart"] = self.parser["parents"].pop(0)
Pop(p) == [p EXCEPT !.laststart = Head(p.parents), !.parents = Tail(@)]

\* the commit of parse_end_element, lines 208-213, of instance w:
\* the store, the heap and the two counters' increments
Commit(nets, os, gs, w) ==
    IF os[w].bssid \in DOMAIN nets
    THEN [networks |-> nets, objs |-> update(os, gs, nets[os[w].bssid], w),
          update |-> 1, new |-> 0]
    ELSE [networks |-> Put(nets, os[w].bssid, w), objs |-> os, update |-> 0, new |-> 1]

\* parse_start_element(name, attrs)
parse_start_element(s, name, attrs) ==
    IF name = "wireless-network"
    THEN IF ~(NetAttrs \subseteq DOMAIN attrs)
         THEN Raise(s, MissingAttr(attrs))
         ELSE LET w == FreeCell(LiveObjs(s))
                  g == FreeCell(LiveGps(s))
              IN
              [s EXCEPT
                 !.objs = Store(@, w, WirelessNetwork(attrs["type"], attrs["first-time"],
                                                      attrs["last-time"], g)),
                 !.gpsd = Store(@, g, EmptyMap),
                 !.parser = Push([s.parser EXCEPT !.wn = w], name)]
    ELSE IF name = "essid" /\ "cloaked" \in DOMAIN attrs
    THEN IF s.parser.ssid.st # "dict"
         THEN Raise(s, SsidError(s))
         ELSE [s EXCEPT
                 !.parser = Push([s.parser EXCEPT
                                    !.ssid.fields = Put(@, "cloaked", attrs["cloaked"])],
                                 name)]
    ELSE IF name = "SSID"
    THEN [s EXCEPT
            !.parser = Push([s.parser EXCEPT
                               !.ssid = [st |-> "dict", encryption |-> {},
                                         fields |-> EmptyMap]],
                            name)]
    ELSE [s EXCEPT !.parser = Push(s.parser, name)]

\* parse_end_element(name)
parse_end_element(s, name) ==
    IF name = "wireless-network"
    THEN LET c == Commit(s.networks, s.objs, s.gpsd, s.parser.wn) IN
         [s EXCEPT !.networks = c.networks,
                   !.objs = c.objs,
                   !.parser = Pop([s.parser EXCEPT !.update = @ + c.update,
                                                   !.new = @ + c.new])]
    ELSE IF name = "SSID"
    THEN IF s.parser.ssid.st # "dict"
         THEN Raise(s, SsidError(s))
         ELSE [s EXCEPT
                 !.objs = IF "type" \in DOMAIN s.parser.ssid.fields
                             /\ s.parser.parents[1] = "wireless-network"
                          THEN [@ EXCEPT ![s.parser.wn].ssid =
                                   Append(@, [encryption |-> s.parser.ssid.encryption,
                                              fields |-> s.parser.ssid.fields])]
                          ELSE @,
                 !.parser = Pop([s.parser EXCEPT
                                   !.ssid = [st |-> "deleted", encryption |-> {},
                                             fields |-> EmptyMap]])]
    ELSE [s EXCEPT !.parser = Pop(s.parser)]

\* parse_char_data, were it to look at the name of the current element alone
parse_char_data_by_name(s, data) ==
    LET cur == s.parser.laststart
        wn == s.parser.wn
    IN
    IF Strip(data) = <<>> \/ wn = 0
    THEN s
    ELSE IF cur = "BSSID"
    THEN [s EXCEPT !.objs[wn].bssid = data]
    ELSE IF cur = "channel"
    THEN IF ~IsNumeric(data)
         THEN Raise(s, "ValueError")
         ELSE [s EXCEPT !.objs[wn].channel = ToNumber(data)]
    ELSE IF cur = "manuf"
    THEN [s EXCEPT !.objs[wn].manuf = data]
    ELSE IF Len(s.parser.parents) >= 1 /\ s.parser.parents[1] = "gps-info"
    THEN IF ~IsNumeric(data)
         THEN Raise(s, "ValueError")
         ELSE [s EXCEPT !.gpsd[s.objs[wn].gps] = Put(@, cur, ToNumber(data))]
    ELSE s

\* parse_char_data(data); parents[1], parents[2] are Python's parents[0], parents[1]
parse_char_data(s, data) ==
    LET cur == s.parser.laststart
        parents == s.parser.parents
        wn == s.parser.wn
    IN
    IF Strip(data) = <<>>
    THEN s
    ELSE IF parents[1] = "SSID"
    THEN IF cur = "encryption"
         THEN IF s.parser.ssid.st # "dict"
              THEN Raise(s, SsidError(s))
              ELSE [s EXCEPT !.parser.ssid.encryption = @ \cup {data}]
         ELSE IF cur \in SsidFields
         THEN IF s.parser.ssid.st # "dict"
              THEN Raise(s, SsidError(s))
              ELSE [s EXCEPT !.parser.ssid.fields = Put(@, cur, data)]
         ELSE s
    ELSE IF Len(parents) < 2
    THEN Raise(s, "IndexError")
    ELSE IF parents[2] = "wireless-network"
    THEN IF parents[1] = "gps-info"
         THEN IF ~IsNumeric(data)
              THEN Raise(s, "ValueError")
              ELSE [s EXCEPT !.gpsd[s.objs[wn].gps] = Put(@, cur, ToNumber(data))]
         ELSE s
    ELSE IF parents[1] = "wireless-network"
    THEN IF cur = "BSSID"
         THEN [s EXCEPT !.objs[wn].bssid = data]
         ELSE IF cur = "channel"
         THEN IF ~IsNumeric(data)
              THEN Raise(s, "ValueError")
              ELSE [s EXCEPT !.objs[wn].channel = ToNumber(data)]
         ELSE IF cur = "manuf"
         THEN [s EXCEPT !.objs[wn].manuf = data]
         ELSE s
    ELSE s

----------------------------------------------------------------------------
(* The expat parser that netxml.parse drives: p.ParseFile(open(filename))  *)

\* an event of the tokenizer: "start", "end", "data", or "error" where the
\* text is not well-formed
Ev(k, name, attrs, data) == [k |-> k, name |-> name, attrs |-> attrs, data |-> data]

StartEv(name, attrs) == Ev("start", name, attrs, <<>>)
EndEv(name) == Ev("end", name, EmptyMap, <<>>)
DataEv(data) == Ev("data", "", EmptyMap, data)
ErrorEv == Ev("error", "", EmptyMap, <<>>)

\* expat tracks the open elements: a handler that returns lets it go on
Opened(t, name) ==
    IF t.err # "" THEN t ELSE [t EXCEPT !.xml = [open |-> <<name>> \o @.open, root |-> TRUE]]

Closed(t) == IF t.err # "" THEN t ELSE [t EXCEPT !.xml.open = Tail(@)]

\* one event: expat raises ExpatError on text that is not well-formed (a second
\* root, a close tag that matches no open element, text outside the root),
\* else calls the handler set in lines 175-177
Expat(s, e) ==
    IF e.k = "start"
    THEN IF s.xml.open = <<>> /\ s.xml.root
         THEN Raise(s, "ExpatError")
         ELSE Opened(Collect(parse_start_element(s, e.name, e.attrs)), e.name)
    ELSE IF e.k = "end"
    THEN IF s.xml.open = <<>> \/ Head(s.xml.open) # e.name
         THEN Raise(s, "ExpatError")
         ELSE Closed(Collect(parse_end_element(s, e.name)))
    ELSE IF e.k = "data"
    THEN IF s.xml.open = <<>>
         THEN IF Strip(e.data) = <<>> THEN s ELSE Raise(s, "ExpatError")
         ELSE parse_char_data(s, e.data)
    ELSE Raise(s, "ExpatError")

\* the end of the input: a document with an open element or without a root is
\* not well-formed
AtEof(s) == IF s.xml.open # <<>> \/ ~s.xml.root THEN Raise(s, "ExpatError") ELSE s

\* netxml.parse up to ParseFile: a new self.parser and a new expat parser
parse_begin(s) == Collect([s EXCEPT !.parser = NewParser, !.xml = NewXml])

----------------------------------------------------------------------------
(* netxml.main: the loop over the file arguments. A directory argument is  *)
(* parse_dir, one netxml.parse per file in it: the model counts its files  *)
(* as arguments.                                                           *)

\* the converter's state as the handlers see it
Cur ==
    [networks |-> networks, objs |-> objs, gpsd |-> gpsd, parser |-> parser,
     xml |-> xml, err |-> err]

\* the state after a call into the parser returned t
Becomes(t) ==
    /\ networks' = t.networks
    /\ objs' = t.objs
    /\ gpsd' = t.gpsd
    /\ parser' = t.parser
    /\ xml' = t.xml
    /\ err' = t.err

\* where main is after a call that left exception exc: an exception is caught
\* nowhere (lines 108-114, 178-179) and ends the process
After(exc, there) == IF exc # "" THEN "aborted" ELSE there

\* the argument is a file: netxml.parse starts on it
ParseBegin ==
    /\ pc = "main"
    /\ argi < NumArgs
    /\ Becomes(parse_begin(Cur))
    /\ pc' = "parse"
    /\ before' = StoreValue(networks, objs, gpsd)
    /\ UNCHANGED <<argi, invalid, nev>>
    /\ UNCHANGED ingestOthers

\* expat reports an element's start tag
StartElement(name, attrs) ==
    /\ pc = "parse"
    /\ nev < MaxElements
    /\ Len(xml.open) < MaxDepth
    /\ xml.open # <<>> \/ ~xml.root
    /\ Becomes(Expat(Cur, StartEv(name, attrs)))
    /\ pc' = After(err', "parse")
    /\ nev' = nev + 1
    /\ UNCHANGED <<argi, before, invalid>>
    /\ UNCHANGED ingestOthers

\* expat reports the end tag of the innermost open element
EndElement ==
    /\ pc = "parse"
    /\ xml.open # <<>>
    /\ Becomes(Expat(Cur, EndEv(Head(xml.open))))
    /\ pc' = After(err', "parse")
    /\ UNCHANGED <<argi, nev, before, invalid>>
    /\ UNCHANGED ingestOthers

\* expat reports the text of an element
CharData(data) ==
    /\ pc = "parse"
    /\ xml.open # <<>>
    /\ Becomes(Expat(Cur, DataEv(data)))
    /\ pc' = After(err', "parse")
    /\ UNCHANGED <<argi, nev, before, invalid>>
    /\ UNCHANGED ingestOthers

\* expat finds the text not well-formed: ParseFile raises ExpatError
SyntaxError ==
    /\ pc = "parse"
    /\ Becomes(Expat(Cur, ErrorEv))
    /\ pc' = After(err', "parse")
    /\ UNCHANGED <<argi, nev, before, invalid>>
    /\ UNCHANGED ingestOthers

\* the document is complete: ParseFile returns, parse prints its summary
EndOfFile ==
    /\ pc = "parse"
    /\ xml.open = <<>>
    /\ xml.root
    /\ pc' = "main"
    /\ argi' = argi + 1
    /\ before' = EmptyMap
    /\ UNCHANGED <<networks, objs, gpsd, parser, xml, nev, err, invalid>>
    /\ UNCHANGED ingestOthers

\* the argument is neither a file nor a directory: "Invalid name" is printed
InvalidName ==
    /\ pc = "main"
    /\ argi < NumArgs
    /\ invalid' = invalid \cup {argi + 1}
    /\ argi' = argi + 1
    /\ UNCHANGED <<pc, networks, objs, gpsd, parser, xml, nev, err, before>>
    /\ UNCHANGED ingestOthers

\* all arguments are consumed: main goes on to the output
Finish ==
    /\ pc = "main"
    /\ argi = NumArgs
    /\ pc' = "done"
    /\ UNCHANGED <<argi, networks, objs, gpsd, parser, xml, nev, err, before, invalid>>
    /\ UNCHANGED ingestOthers

----------------------------------------------------------------------------
(* The input files, event by event *)

\* element names of the files
Names == {"wireless-network", "BSSID", "gps-info", "avg-lat"}

\* character data of the files
Data == {<<" ">>, <<"7">>, <<"1", "2">>, <<"A", "P">>}

\* a first-time or last-time attribute: hours, minutes, seconds of the day
Midnight == <<0, 0, 0>>

FullAttrs(t) == [a \in NetAttrs |-> IF a = "type" THEN t ELSE Midnight]

\* attributes an element of the files may carry
AttrsFor(name) ==
    IF name = "wireless-network"
    THEN {FullAttrs("infrastructure"), FullAttrs("probe")}
         \cup {[a \in NetAttrs \ {m} |-> FullAttrs("probe")[a]] : m \in NetAttrs}
    ELSE IF name = "essid" THEN {EmptyMap, [a \in {"cloaked"} |-> "true"]}
    ELSE {EmptyMap}

\* the converter as netxml.__init__ leaves it, before main reads an argument
InitIngest ==
    /\ pc = "main"
    /\ argi = 0
    /\ networks = EmptyMap
    /\ objs = <<>>
    /\ gpsd = <<>>
    /\ parser = NewParser
    /\ xml = NewXml
    /\ nev = 0
    /\ err = ""
    /\ before = EmptyMap
    /\ invalid = {}

\* no network is being classified
IdleClass ==
    /\ ssidIn = <<>>
    /\ encryption = <<>>
    /\ crypt = ""
    /\ cpc = "start"

\* no route is being written
IdleRoute ==
    /\ route = EmptyMap
    /\ todo = <<>>
    /\ output = <<>>
    /\ num = 0
    /\ last_second = 0
    /\ rpc = "start"

\* output_kml is not running
IdleRender ==
    /\ disable_names = FALSE
    /\ visit = <<>>
    /\ folders = EmptyMap
    /\ count = EmptyMap
    /\ target = <<>>
    /\ kpc = ""

\* no cached function is in use
IdleCache ==
    /\ backend = ""
    /\ stored = EmptyMap
    /\ args = ""
    /\ value = ""
    /\ ipc = "idle"
    /\ trace = <<>>
    /\ invocations = EmptyMap
    /\ calls = EmptyMap

Init == InitIngest /\ IdleClass /\ IdleRoute /\ IdleRender /\ IdleCache

Next ==
    \/ ParseBegin
    \/ InvalidName
    \/ \E name \in Names : \E attrs \in AttrsFor(name) : StartElement(name, attrs)
    \/ EndElement
    \/ \E data \in Data : CharData(data)
    \/ SyntaxError
    \/ EndOfFile
    \/ Finish

Spec == Init /\ [][Next]_vars

----------------------------------------------------------------------------
(* Files with other elements, event by event *)

\* attributes of the elements of these files
WalkAttrs(name) ==
    IF name = "wireless-network" THEN {FullAttrs("infrastructure")}
    ELSE IF name = "essid" THEN {EmptyMap, [a \in {"cloaked"} |-> "true"]}
    ELSE {EmptyMap}

\* element names of files with SSID elements
SsidNames == {"wireless-network", "SSID", "essid", "type"}

NextSsid ==
    \/ ParseBegin
    \/ InvalidName
    \/ \E name \in SsidNames : \E attrs \in WalkAttrs(name) : StartElement(name, attrs)
    \/ EndElement
    \/ \E data \in Data : CharData(data)
    \/ SyntaxError
    \/ EndOfFile
    \/ Finish

SpecSsid == Init /\ [][NextSsid]_vars

\* element names of files with elements of the same name at different depths:
\* the channel of a network and the channel of one of its clients
DispatchNames ==
    {"wireless-network", "wireless-client", "BSSID", "channel", "gps-info", "avg-lat"}

NextDispatch ==
    \/ ParseBegin
    \/ InvalidName
    \/ \E name \in DispatchNames : \E attrs \in WalkAttrs(name) : StartElement(name, attrs)
    \/ EndElement
    \/ \E data \in Data : CharData(data)
    \/ SyntaxError
    \/ EndOfFile
    \/ Finish

SpecDispatch == Init /\ [][NextDispatch]_vars

----------------------------------------------------------------------------
(* The input files, network by network: each file is a well-formed netxml  *)
(* document, a detection-run element around wireless-network elements, and *)
(* the events of one wireless-network element are one step                 *)

Element(name, attrs, content) == <<StartEv(name, attrs)>> \o content \o <<EndEv(name)>>

\* <name>data</name>, or nothing when the file has no such element
Leaf(name, data) ==
    IF data = <<>> THEN <<>> ELSE Element(name, EmptyMap, <<DataEv(data)>>)

\* <wireless-network type=.. first-time=.. last-time=..> with the children
\* BSSID, SSID/type and gps-info/avg-lat that n gives, and the indentation
\* after it
NetworkElement(n) ==
    Element("wireless-network", FullAttrs(n.type),
            Leaf("BSSID", n.bssid)
            \o (IF n.ssid = <<>> THEN <<>>
                ELSE Element("SSID", EmptyMap, Leaf("type", n.ssid)))
            \o (IF n.lat = <<>> THEN <<>>
                ELSE Element("gps-info", EmptyMap, Leaf("avg-lat", n.lat))))
    \o <<DataEv(<<"\n", " ">>)>>

\* the networks of the files: an infrastructure network with one SSID or a
\* probe network with none, with or without a latitude (<<>>: none)
NetworkInputs ==
    {[type |-> t, bssid |-> b, lat |-> l,
      ssid |-> IF t = "infrastructure" THEN <<"A", "P">> ELSE <<>>] :
        t \in {"infrastructure", "probe"},
        b \in {<<"7">>, <<"1", "2">>},
        l \in {<<>>, <<"7">>, <<"1", "2">>}}

\* p.ParseFile on a part of the file: the first exception ends it
RECURSIVE Feed(_, _)
Feed(s, events) ==
    IF s.err # "" \/ events = <<>> THEN s ELSE Feed(Expat(s, Head(events)), Tail(events))

\* netxml.parse starts on a file and expat reports its root, <detection-run>
DocumentBegin ==
    /\ pc = "main"
    /\ argi < NumArgs
    /\ Becomes(Feed(parse_begin(Cur), <<StartEv("detection-run", EmptyMap)>>))
    /\ pc' = After(err', "parse")
    /\ before' = StoreValue(networks, objs, gpsd)
    /\ UNCHANGED <<argi, invalid, nev>>
    /\ UNCHANGED ingestOthers

\* expat reports the events of one wireless-network element of the file
ParseNetwork(n) ==
    /\ pc = "parse"
    /\ nev < MaxNetworks
    /\ Becomes(Feed(Cur, NetworkElement(n)))
    /\ pc' = After(err', "parse")
    /\ nev' = nev + 1
    /\ UNCHANGED <<argi, before, invalid>>
    /\ UNCHANGED ingestOthers

\* expat reports </detection-run> and the end of the file: parse returns
DocumentEnd ==
    /\ pc = "parse"
    /\ Becomes(AtEof(Feed(Cur, <<EndEv("detection-run")>>)))
    /\ pc' = After(err', "main")
    /\ argi' = IF err' = "" THEN argi + 1 ELSE argi
    /\ before' = IF err' = "" THEN EmptyMap ELSE before
    /\ UNCHANGED <<nev, invalid>>
    /\ UNCHANGED ingestOthers

NextBatch ==
    \/ DocumentBegin
    \/ \E n \in NetworkInputs : ParseNetwork(n)
    \/ DocumentEnd
    \/ Finish

SpecBatch == Init /\ [][NextBatch]_vars

----------------------------------------------------------------------------
(* The encryption classifier: wn.get_from_ssid('encryption') and           *)
(* categorize_encryption, lines 320-321                                    *)

\* str.startswith
StartsWith(str, prefix) ==
    Len(str) >= Len(prefix) /\ SubSeq(str, 1, Len(prefix)) = prefix

WPA == <<"W", "P", "A">>
WEP == <<"W", "E", "P">>
NoneToken == <<"N", "o", "n", "e">>

\* `for bla in ssid[key]: if bla not in result: result += [bla,]`
RECURSIVE AddNew(_, _)
AddNew(result, keys) ==
    IF keys = <<>> THEN result
    ELSE AddNew(IF \E i \in 1..Len(result) : result[i] = Head(keys)
                THEN result ELSE Append(result, Head(keys)),
                Tail(keys))

\* the loop of get_from_ssid from the i-th SSID record on; iter[i] is the order
\* in which Python iterates over the i-th record's encryption dictionary
RECURSIVE ScanSsid(_, _, _, _, _)
ScanSsid(ssid, key, iter, i, result) ==
    IF i > Len(ssid) THEN result
    ELSE IF key = "encryption"
    THEN ScanSsid(ssid, key, iter, i + 1, AddNew(result, iter[i]))
    ELSE IF key \in DOMAIN ssid[i].fields /\ ssid[i].fields[key] # <<>>
    THEN ssid[i].fields[key]
    ELSE ScanSsid(ssid, key, iter, i + 1, result)

\* WirelessNetwork.get_from_ssid(key): the first scalar value, or the list of
\* the dictionary keys found, or "" (the empty sequence)
get_from_ssid(ssid, key, iter) == ScanSsid(ssid, key, iter, 1, <<>>)

\* `for c in encryption: if c.startswith("WPA"): return "WPA"`, then the rest
RECURSIVE CategorizeFrom(_, _)
CategorizeFrom(enc, i) ==
    IF i <= Len(enc)
    THEN IF StartsWith(enc[i], WPA) THEN "WPA" ELSE CategorizeFrom(enc, i + 1)
    ELSE IF \E j \in 1..Len(enc) : enc[j] = WEP THEN "WEP"
    ELSE IF \E j \in 1..Len(enc) : enc[j] = NoneToken THEN "None"
    ELSE "Other"

\* categorize_encryption, were it to test for WEP first
categorize_wep_first(enc) ==
    IF \E j \in 1..Len(enc) : enc[j] = WEP THEN "WEP"
    ELSE IF \E j \in 1..Len(enc) : StartsWith(enc[j], WPA) THEN "WPA"
    ELSE IF \E j \in 1..Len(enc) : enc[j] = NoneToken THEN "None"
    ELSE "Other"

\* netxml.categorize_encryption(encryption)
categorize_encryption(enc) == CategorizeFrom(enc, 1)

\* SSID records of one network
MaxSsids == 1
\* encryption tokens of one SSID record
MaxTokens == 2

\* encryption tokens of the files: "WPA", "WPA+TKIP", "WEP", "None", and
\* tokens that only resemble them: "WP", "xWPA", "WEP40", "none"
Tokens ==
    {WPA, WPA \o <<"+", "T", "K", "I", "P">>, WEP, NoneToken,
     <<"W", "P">>, <<"x">> \o WPA, WEP \o <<"4", "0">>, <<"n", "o", "n", "e">>}

\* the sequences that list each element of S once: the orders of iteration
Orders(S) ==
    {q \in [1..Cardinality(S) -> S] : \A i, j \in 1..Cardinality(S) : q[i] = q[j] => i = j}

\* the SSID records parse_end_element appends: they have a type
SsidInputs ==
    {[encryption |-> e, fields |-> [f \in {"type"} |-> <<"A", "P">>]] :
        e \in {t \in SUBSET Tokens : Cardinality(t) <= MaxTokens}}

\* a network with its SSID records is about to be classified
InitClass ==
    /\ ssidIn \in UNION {[1..n -> SsidInputs] : n \in 0..MaxSsids}
    /\ encryption = <<>>
    /\ crypt = ""
    /\ cpc = "start"

\* for each SSID record an order of iteration over its encryption dictionary
RECURSIVE Iterations(_)
Iterations(ssid) ==
    IF ssid = <<>> THEN {<<>>}
    ELSE {<<o>> \o rest : o \in Orders(Head(ssid).encryption), rest \in Iterations(Tail(ssid))}

\* encryption = wn.get_from_ssid('encryption'), line 320; the order in which a
\* dictionary yields its keys is not fixed by the program
ReadEncryption ==
    /\ cpc = "start"
    /\ \E iter \in Iterations(ssidIn) :
          encryption' = get_from_ssid(ssidIn, "encryption", iter)
    /\ cpc' = "read"
    /\ UNCHANGED <<ssidIn, crypt>>
    /\ UNCHANGED classOthers

\* crypt = self.categorize_encryption(encryption), line 321
Categorize ==
    /\ cpc = "read"
    /\ crypt' = categorize_encryption(encryption)
    /\ cpc' = "done"
    /\ UNCHANGED <<ssidIn, encryption>>
    /\ UNCHANGED classOthers

NextClass ==
    \/ ReadEncryption
    \/ Categorize

InitClassifier == InitIngest /\ InitClass /\ IdleRoute /\ IdleRender /\ IdleCache

SpecClass == InitClassifier /\ [][NextClass]_vars

----------------------------------------------------------------------------
(* netxml.output_kml_route(route), lines 340-358: one step per pass of the  *)
(* loop. The output list holds one entry per string appended.              *)

\* the gap, in seconds, above which a new route starts
RouteGap == 1800

\* sorted(route): the keys in ascending order
RECURSIVE Sorted(_)
Sorted(S) ==
    IF S = {} THEN <<>>
    ELSE LET m == CHOOSE x \in S : \A y \in S : x <= y IN <<m>> \o Sorted(S \ {m})

\* time.gmtime(second), as far as strftime("%a %b %d %H:%M:%S %Y") prints it:
\* the day since 1 January 1970, the hour, the minute, the second
gmtime(second) ==
    <<second \div 86400, (second % 86400) \div 3600, (second % 3600) \div 60, second % 60>>

Entry(t, lon, lat, n, end) == [t |-> t, lon |-> lon, lat |-> lat, num |-> n, end |-> end]

\* "<Folder><name>Routes</name>"
FolderOpen == Entry("folder", 0, 0, 0, <<>>)

\* "<Placemark>...<LineString><coordinates>\n"
SegmentOpen == Entry("open", 0, 0, 0, <<>>)

\* "lon,lat \n"
Coordinate(lon, lat) == Entry("coord", lon, lat, 0, <<>>)

\* "</coordinates></LineString><name>Route num (end time)</name></Placemark>\n"
SegmentClose(n, second) == Entry("close", 0, 0, n, gmtime(second))

\* "</Folder>"
FolderClose == Entry("endfolder", 0, 0, 0, <<>>)

\* lines 341-344
RouteBegin ==
    /\ rpc = "start"
    /\ output' = <<FolderOpen>>
    /\ num' = 1
    /\ last_second' = 0
    /\ todo' = Sorted(DOMAIN route)
    /\ rpc' = "loop"
    /\ UNCHANGED route
    /\ UNCHANGED routeOthers

\* one pass of `for second in sorted(route)`, lines 345-354
RouteStep ==
    /\ rpc = "loop"
    /\ todo # <<>>
    /\ LET second == Head(todo)
           lat == route[second][1]
           lon == route[second][2]
           gap == second - last_second > RouteGap
           closing == IF gap /\ Len(output) > 1
                      THEN <<SegmentClose(num, last_second)>> ELSE <<>>
           opening == IF gap THEN <<SegmentOpen>> ELSE <<>>
       IN
       /\ output' = output \o closing \o opening \o <<Coordinate(lon, lat)>>
       /\ num' = IF gap /\ Len(output) > 1 THEN num + 1 ELSE num
       /\ last_second' = second
    /\ todo' = Tail(todo)
    /\ UNCHANGED <<route, rpc>>
    /\ UNCHANGED routeOthers

\* lines 356-358, after the loop
RouteEnd ==
    /\ rpc = "loop"
    /\ todo = <<>>
    /\ output' = output \o <<SegmentClose(num, last_second), FolderClose>>
    /\ rpc' = "done"
    /\ UNCHANGED <<route, todo, num, last_second>>
    /\ UNCHANGED routeOthers

\* waypoints of one route
MaxWaypoints == 4

\* the seconds of the waypoints: the example 0, 100, 2000, 2100 and seconds
\* that are RouteGap or RouteGap + 1 apart
Seconds == {0, 100, 1800, 1801, 2000, 2100, 3900, 3901}

\* <<lat, lon>> of a waypoint
Positions == {<<7, 12>>, <<8, 12>>}

\* output_kml_route is called on a route, line 299
InitRoute ==
    /\ route \in UNION {[S -> Positions] :
                          S \in {T \in SUBSET Seconds : Cardinality(T) <= MaxWaypoints}}
    /\ todo = <<>>
    /\ output = <<>>
    /\ num = 0
    /\ last_second = 0
    /\ rpc = "start"

NextRoute ==
    \/ RouteBegin
    \/ RouteStep
    \/ RouteEnd

InitRouteOutput == InitIngest /\ IdleClass /\ InitRoute /\ IdleRender /\ IdleCache

SpecRoute == InitRouteOutput /\ [][NextRoute]_vars

----------------------------------------------------------------------------
(* netxml.output_kml and output_kml_fill_folders, lines 261-338: the       *)
(* document written to target, one entry per target.add. main calls        *)
(* output_kml only when self.networks is not empty (line 126).             *)

\* str.replace(old, new) for a one-character old: every occurrence, left to right
RECURSIVE Replace(_, _, _)
Replace(str, old, new) ==
    IF str = <<>> THEN <<>>
    ELSE (IF Head(str) = old THEN new ELSE <<Head(str)>>) \o Replace(Tail(str), old, new)

Lt == <<"&", "l", "t", ";">>
Gt == <<"&", "g", "t", ";">>
Amp == <<"&", "a", "m", "p", ";">>

\* .replace("<","&lt;").replace(">","&gt;").replace("&","&amp;"), line 315
Escaped(essid) == Replace(Replace(Replace(essid, "<", Lt), ">", Gt), "&", Amp)

\* name = "<name>%s</name>" % essid unless self.disable_names, lines 316-319
NameField(essid, disabled) ==
    IF ~disabled THEN <<"<name>">> \o essid \o <<"</name>">> ELSE <<>>

\* int(time.mktime(time.strptime(t))) of a time of 1 January 1970, UTC
mktime(t) == t[1] * 3600 + t[2] * 60 + t[3]

\* the dwell, in seconds, below which a network is a waypoint of the route
DwellLimit == 300

\* the test of line 335, were it `<=`
IsWaypoint_inclusive(sec_first, sec_last) == sec_last - sec_first <= DwellLimit

\* `if sec_last - sec_first < 300`, line 335
IsWaypoint(sec_first, sec_last) == sec_last - sec_first < DwellLimit

\* line 336, were a second already in the route to keep its coordinates
AddWaypoint_first_wins(r, sec_last, gps) ==
    IF sec_last \in DOMAIN r THEN r ELSE Put(r, sec_last, <<gps["avg-lat"], gps["avg-lon"]>>)

\* route[sec_last] = (wn.gps['avg-lat'], wn.gps['avg-lon']), line 336
AddWaypoint(r, sec_last, gps) == Put(r, sec_last, <<gps["avg-lat"], gps["avg-lon"]>>)

\* the order of the sections, were WEP to come first
Categories_wep_first == <<"WEP", "WPA", "None", "Other">>

\* `for crypt in ("WPA","WEP","None","Other")`, line 280
Categories == <<"WPA", "WEP", "None", "Other">>

\* the counting of line 332, were it to count every network as "Other"
Counted_as_other(cnt, c) == [cnt EXCEPT !["Other"] = @ + 1]

\* count[crypt] += 1, line 332
Counted(cnt, c) == [cnt EXCEPT ![c] = @ + 1]

\* KML_PLACEMARK % (...), lines 325-331: the style, the name field, the
\* coordinates, longitude first, the essid and the bssid of the description
Placemark(c, name, gps, essid, bssid) ==
    [crypt |-> c, name |-> name, lon |-> gps["avg-lon"], lat |-> gps["avg-lat"],
     essid |-> essid, bssid |-> bssid]

\* an entry of the document
Part(kind, c, n, pic, body) == [kind |-> kind, crypt |-> c, count |-> n, pic |-> pic, body |-> body]

\* the five strings of lines 271-275
Header ==
    <<Part("<?xml>", "", 0, "", <<>>), Part("<kml>", "", 0, "", <<>>),
      Part("<Document>", "", 0, "", <<>>), Part("<name>", "", 0, "", <<>>),
      Part("<open>", "", 0, "", <<>>)>>

\* lines 281-286
Pic(c) == IF c = "WPA" THEN "WPA" ELSE IF c = "WEP" THEN "WEP" ELSE "Open"

\* KML_FOLDER % (crypt, count[crypt], crypt, pic, "".join(folders[crypt])), lines 288-294
Folder(c, n, placemarks) == Part("<Folder>", c, n, Pic(c), placemarks)

\* what output_kml_route returned, line 299
RouteSection(out) == Part("Routes", "", 0, "", out)

\* "\r\n</Document>\r\n</kml>", line 300
Footer == Part("</kml>", "", 0, "", <<>>)

\* lines 261-277: output_kml opens the target, writes the header and
\* creates count
RenderBegin ==
    /\ kpc = "start"
    /\ target' = Header
    /\ count' = [c \in {"WPA", "WEP", "None", "Other"} |-> 0]
    /\ kpc' = "call"
    /\ UNCHANGED <<disable_names, visit, folders>>
    /\ UNCHANGED routeVars
    /\ UNCHANGED renderOthers

\* lines 306-310: output_kml_fill_folders starts; a dictionary yields its keys
\* in an order the program does not fix
FillBegin ==
    /\ kpc = "call"
    /\ folders' = [c \in {"WPA", "WEP", "None", "Other"} |-> <<>>]
    /\ route' = EmptyMap
    /\ visit' \in Orders(DOMAIN networks)
    /\ kpc' = "fill"
    /\ UNCHANGED <<disable_names, count, target>>
    /\ UNCHANGED <<todo, output, num, last_second, rpc>>
    /\ UNCHANGED renderOthers

\* one pass of `for net in self.networks`, lines 310-336
FillStep ==
    /\ kpc = "fill"
    /\ visit # <<>>
    /\ LET wn == objs[networks[Head(visit)]]
           gps == gpsd[wn.gps]
       IN
       IF Cardinality(DOMAIN gps) = 0
       THEN UNCHANGED <<folders, count, route>>
       ELSE \E iter \in Iterations(wn.ssid) :
               LET essid == Escaped(get_from_ssid(wn.ssid, "essid", iter))
                   name == NameField(essid, disable_names)
                   enc == get_from_ssid(wn.ssid, "encryption", iter)
                   c == categorize_encryption(enc)
                   sec_first == mktime(wn.firsttime)
                   sec_last == mktime(wn.lasttime)
               IN
               /\ folders' = [folders EXCEPT
                                ![c] = Append(@, Placemark(c, name, gps, essid, wn.bssid))]
               /\ count' = Counted(count, c)
               /\ route' = IF IsWaypoint(sec_first, sec_last)
                           THEN AddWaypoint(route, sec_last, gps)
                           ELSE route
    /\ visit' = Tail(visit)
    /\ UNCHANGED <<disable_names, target, kpc>>
    /\ UNCHANGED <<todo, output, num, last_second, rpc>>
    /\ UNCHANGED renderOthers

\* line 338 and line 278: output_kml_fill_folders returns
FillEnd ==
    /\ kpc = "fill"
    /\ visit = <<>>
    /\ kpc' = "folders"
    /\ UNCHANGED <<disable_names, visit, folders, count, target>>
    /\ UNCHANGED routeVars
    /\ UNCHANGED renderOthers

\* one pass of the loop of lines 280-297: the section of the next category
WriteFolder ==
    /\ kpc = "folders"
    /\ LET i == Len(target) - Len(Header) + 1
           c == Categories[i]
       IN
       /\ target' = Append(target, Folder(c, count[c], folders[c]))
       /\ kpc' = IF i = Len(Categories) THEN "route" ELSE "folders"
    /\ UNCHANGED <<disable_names, visit, folders, count>>
    /\ UNCHANGED routeVars
    /\ UNCHANGED renderOthers

\* lines 299-301: what output_kml_route returned and the end of the document
RenderEnd ==
    /\ kpc = "route"
    /\ rpc = "done"
    /\ target' = target \o <<RouteSection(output), Footer>>
    /\ kpc' = "done"
    /\ UNCHANGED <<disable_names, visit, folders, count>>
    /\ UNCHANGED routeVars
    /\ UNCHANGED renderOthers

\* networks of one store
MaxRecords == 2

\* first-time and last-time of the networks: a dwell of 299 s, of 300 s, of
\* 299 s ending at the same second as the one before, and of 0 s ending there
Times ==
    {<<<<0, 0, 0>>, <<0, 4, 59>>>>, <<<<0, 0, 0>>, <<0, 5, 0>>>>,
     <<<<0, 0, 1>>, <<0, 5, 0>>>>, <<<<0, 5, 0>>, <<0, 5, 0>>>>}

\* the gps dictionaries of the networks: empty, or what the gps-info of a
\* capture file gives, avg-lat and avg-lon (lines 326-336 read both by subscript)
GpsInputs ==
    {EmptyMap} \cup {[k \in {"avg-lat", "avg-lon"} |-> IF k = "avg-lat" THEN lat ELSE 12] :
                        lat \in {7, 8}}

\* one SSID record as parse_end_element appends it
Ssid(essid, enc) ==
    [encryption |-> enc,
     fields |-> IF essid = <<>> THEN [f \in {"type"} |-> <<"A", "P">>]
                ELSE [f \in {"type", "essid"} |-> IF f = "type" THEN <<"A", "P">> ELSE essid]]

\* the SSID records of a network, chosen with its times: one of each category
SsidsFor(t) ==
    IF t[2] = <<0, 4, 59>> THEN <<Ssid(<<"a", "<">>, {WPA, WEP})>>
    ELSE IF t[1] = <<0, 0, 0>> THEN <<Ssid(<<"&">>, {WEP})>>
    ELSE IF t[1] = <<0, 0, 1>> THEN <<Ssid(<<>>, {NoneToken})>>
    ELSE <<>>

\* the i-th BSSID: "7", "77", ...
BssidOf(i) == [j \in 1..i |-> "7"]

\* the stores main hands to output_kml: 1..MaxRecords networks
StoreInputs ==
    UNION {[1..n -> Times \X GpsInputs] : n \in 1..MaxRecords}

\* main calls output_kml on a store that the parsing left
InitRender ==
    /\ \E st \in StoreInputs :
          /\ networks = [b \in {BssidOf(i) : i \in DOMAIN st} |-> Len(b)]
          /\ objs = [i \in DOMAIN st |->
                       [WirelessNetwork("infrastructure", st[i][1][1], st[i][1][2], i)
                          EXCEPT !.bssid = BssidOf(i), !.ssid = SsidsFor(st[i][1])]]
          /\ gpsd = [i \in DOMAIN st |-> st[i][2]]
    /\ pc = "done"
    /\ argi = NumArgs
    /\ parser = NewParser
    /\ xml = NewXml
    /\ nev = 0
    /\ err = ""
    /\ before = EmptyMap
    /\ invalid = {}
    /\ disable_names \in BOOLEAN
    /\ visit = <<>>
    /\ folders = EmptyMap
    /\ count = EmptyMap
    /\ target = <<>>
    /\ kpc = "start"

NextRender ==
    \/ RenderBegin
    \/ FillBegin
    \/ FillStep
    \/ FillEnd
    \/ WriteFolder
    \/ kpc = "route" /\ RouteBegin
    \/ kpc = "route" /\ RouteStep
    \/ kpc = "route" /\ RouteEnd
    \/ RenderEnd

InitOutput == InitRender /\ IdleClass /\ IdleRoute /\ IdleCache

SpecRender == InitOutput /\ [][NextRender]_vars

----------------------------------------------------------------------------
(* The cache decorator (2431447/snippet.py): cached(backend)(fn) and the   *)
(* calls of the function `inner` it returns, one step per line of inner.   *)
(* fn is a deterministic function of one argument that hash() accepts.     *)

\* Python's None
None == "None"

\* the arguments of the calls: 1 and 1.0 have the same hash; fn returns None for 0
Arguments == {"1", "1.0", "2", "0"}

\* hash(arg)
Hash(arg) == IF arg \in {"1", "1.0"} THEN 1 ELSE IF arg = "2" THEN 2 ELSE 0

\* generate_function_key(fn), lines 15-21: the digest of the bytecode of fn
FunctionKey == "md5(foo)"

\* generate_unique_key(arg), lines 24-33: the digest of the hashes of the
\* arguments; the digest is taken to tell different hashes apart
generate_unique_key(arg) == <<Hash(arg)>>

\* unique_key = '%s:%s' % (key, key_generator(*args, **kwargs)), line 60
UniqueKey(arg) == <<FunctionKey, generate_unique_key(arg)>>

\* fn(arg): '%s!' % x as in the examples, but None for 0
Fn(arg) == IF arg = "0" THEN None ELSE IF arg = "1" THEN "1!" ELSE IF arg = "1.0" THEN "1.0!" ELSE "2!"

\* backend.get(key): a backend that returns what was set, or the
\* DummyCacheBackend of lines 91-102 that returns its fallback, None
Get(key) == IF backend = "dict" /\ key \in DOMAIN stored THEN stored[key] ELSE None

\* a call that inner makes
Called(op, key, arg, val) == [op |-> op, key |-> key, arg |-> arg, val |-> val]

\* line 65, were inner to compute the value whatever the cache returned
AfterGet_always_invoke(v) == "invoke"

\* `if value is None`, line 65: where inner goes on after backend.get
AfterGet(v) == IF v = None THEN "invoke" ELSE "return"

\* how often something was counted under x
CountOf(f, x) == IF x \in DOMAIN f THEN f[x] ELSE 0

\* how often something was counted in all
RECURSIVE TotalOver(_, _)
TotalOver(f, S) ==
    IF S = {} THEN 0
    ELSE LET x == CHOOSE y \in S : TRUE IN f[x] + TotalOver(f, S \ {x})

Total(f) == TotalOver(f, DOMAIN f)

\* calls of the cached function in one run
MaxCalls == 3

\* inner(arg) is called: lines 60 and 64
InnerGet(arg) ==
    /\ ipc = "idle"
    /\ Total(calls) < MaxCalls
    /\ args' = arg
    /\ value' = Get(UniqueKey(arg))
    /\ trace' = <<Called("get", UniqueKey(arg), "", value')>>
    /\ ipc' = AfterGet(value')
    /\ calls' = Put(calls, arg, CountOf(calls, arg) + 1)
    /\ UNCHANGED <<backend, stored, invocations>>
    /\ UNCHANGED cacheOthers

\* value = fn(*args, **kwargs), line 66
InnerInvoke ==
    /\ ipc = "invoke"
    /\ value' = Fn(args)
    /\ trace' = Append(trace, Called("fn", <<>>, args, value'))
    /\ invocations' = Put(invocations, UniqueKey(args), CountOf(invocations, UniqueKey(args)) + 1)
    /\ ipc' = "set"
    /\ UNCHANGED <<backend, stored, args, calls>>
    /\ UNCHANGED cacheOthers

\* backend.set(unique_key, value, **set_kwargs), line 67
InnerSet ==
    /\ ipc = "set"
    /\ stored' = IF backend = "dict" THEN Put(stored, UniqueKey(args), value) ELSE stored
    /\ trace' = Append(trace, Called("set", UniqueKey(args), "", value))
    /\ ipc' = "return"
    /\ UNCHANGED <<backend, args, value, invocations, calls>>
    /\ UNCHANGED cacheOthers

\* return value, line 69
InnerReturn ==
    /\ ipc = "return"
    /\ ipc' = "idle"
    /\ UNCHANGED <<backend, stored, args, value, trace, invocations, calls>>
    /\ UNCHANGED cacheOthers

\* fn was decorated with cached(backend=...), lines 36-72, and not called yet
InitCache ==
    /\ backend \in {"dict", "dummy"}
    /\ stored = EmptyMap
    /\ args = ""
    /\ value = ""
    /\ ipc = "idle"
    /\ trace = <<>>
    /\ invocations = EmptyMap
    /\ calls = EmptyMap

NextCache ==
    \/ \E arg \in Arguments : InnerGet(arg)
    \/ InnerInvoke
    \/ InnerSet
    \/ InnerReturn

InitCached == InitIngest /\ IdleClass /\ IdleRoute /\ IdleRender /\ InitCache

SpecCache == InitCached /\ [][NextCache]_vars

----------------------------------------------------------------------------
(* Ingestion: what the batch does with a file that cannot be parsed *)

\* C1: a file that is not well-formed XML aborts that file only; the files
\* after it in the batch are still ingested. Stated as: an ExpatError in a
\* file after the first never ends the run while a later file is still unread.
C1_MalformedFileIsolation ==
    ~(pc = "aborted" /\ err = "ExpatError" /\ 0 < argi /\ argi + 1 < NumArgs)

\* C2: none of the records of a file that fails with a syntax error is in the
\* store: the store after the failed file equals the store before it. Stated
\* for the entries with a BSSID (an entry under the empty BSSID is C4's): each
\* was in the store, with the same fields, when the file was opened.
C2_NoPartialRecords ==
    err = "ExpatError"
        => \A k \in DOMAIN networks \ {<<>>} :
              k \in DOMAIN before /\ before[k] = RecordValue(objs, gpsd, networks[k])

\* C3: a wireless-network start tag without type, first-time or last-time drops
\* that record only and the file is processed further: the KeyError of the
\* missing attribute never ends the run.
C3_MissingAttributeNonFatal ==
    err \in {"KeyError: 'type'", "KeyError: 'first-time'", "KeyError: 'last-time'"}
        => pc # "aborted"

\* C4: a record whose BSSID is empty is never committed: the store has no
\* entry under the empty string.
C4_NoEmptyKey == <<>> \notin DOMAIN networks

----------------------------------------------------------------------------
(* Ingestion: the merge of a record whose BSSID is already in the store *)

\* the instance committed last, self.parser["wn"]
Last == parser.wn

\* whether a wireless-network element was just committed into an entry that
\* another instance holds (a merge), in a file still being parsed
JustMerged ==
    /\ pc = "parse"
    /\ Last # 0
    /\ parser.laststart = "detection-run"
    /\ objs[Last].bssid \in DOMAIN networks
    /\ networks[objs[Last].bssid] # Last

\* the store, by value, after a second instance with the fields of the one
\* committed last is committed too
CommittedAgain ==
    LET w == FreeCell(LiveObjs(Cur))
        g == FreeCell(LiveGps(Cur))
        os == Store(objs, w, [objs[Last] EXCEPT !.gps = g])
        gs == Store(gpsd, g, gpsd[objs[Last].gps])
        c == Commit(networks, os, gs, w)
    IN  StoreValue(c.networks, c.objs, gs)

\* C5: merge idempotence: whenever a record has been committed, committing a
\* record with the same BSSID and the same fields once more leaves the store
\* as it is, key by key and field by field.
C5_MergeIdempotent ==
    (pc = "parse" /\ Last # 0 /\ parser.laststart = "detection-run")
        => CommittedAgain = StoreValue(networks, objs, gpsd)

\* C5 witness: a record with an SSID was merged into an entry without gps and
\* backfilled it, so that the first commit changed the store
C5_Witness ==
    /\ JustMerged
    /\ objs[Last].ssid # <<>>
    /\ DOMAIN gpsd[objs[Last].gps] # {}
    /\ objs[networks[objs[Last].bssid]].gps = objs[Last].gps

\* the gps mapping stored under key k
GpsOf(k) == gpsd[objs[networks[k]].gps]

\* C6: GPS backfill monotonicity: once the record stored under a BSSID has a
\* non-empty gps mapping, no later step (a commit within the file or in a
\* later file) clears or replaces it.
C6_GpsMonotone ==
    [][\A k \in DOMAIN networks :
          DOMAIN GpsOf(k) # {} => k \in DOMAIN networks' /\ GpsOf(k)' = GpsOf(k)]_vars

\* C6 witness: a record with a non-empty gps was merged into an entry whose
\* gps is non-empty and different, and the entry kept its own
C6_Witness ==
    /\ JustMerged
    /\ DOMAIN gpsd[objs[Last].gps] # {}
    /\ DOMAIN GpsOf(objs[Last].bssid) # {}
    /\ GpsOf(objs[Last].bssid) # gpsd[objs[Last].gps]

\* a record by value without its gps
Frame(r) == [type |-> r.type, firsttime |-> r.firsttime, lasttime |-> r.lasttime,
             bssid |-> r.bssid, manuf |-> r.manuf, ssid |-> r.ssid, channel |-> r.channel]

\* C7: first seen wins: a step that commits a record whose BSSID is already in
\* the store (the update counter goes up) keeps the set of keys, keeps every
\* field but gps of every stored record, and keeps the records under the
\* other keys whole.
C7_FirstSeenWins ==
    [][(pc = "parse" /\ pc' = "parse" /\ parser'.update = parser.update + 1)
         => /\ DOMAIN networks' = DOMAIN networks
            /\ \A k \in DOMAIN networks :
                 /\ Frame(RecordValue(objs', gpsd', networks'[k]))
                      = Frame(RecordValue(objs, gpsd, networks[k]))
                 /\ k # objs'[parser'.wn].bssid
                      => RecordValue(objs', gpsd', networks'[k])
                           = RecordValue(objs, gpsd, networks[k])]_vars

\* C7 witness: the record merged differs from the stored one in type and SSIDs,
\* and another key is in the store
C7_Witness ==
    /\ JustMerged
    /\ objs[Last].type # objs[networks[objs[Last].bssid]].type
    /\ objs[Last].ssid # objs[networks[objs[Last].bssid]].ssid
    /\ Cardinality(DOMAIN networks) > 1

----------------------------------------------------------------------------
(* The encryption classifier *)

\* the encryption tokens of all SSID records of the network classified
TokensIn == UNION {ssidIn[i].encryption : i \in 1..Len(ssidIn)}

\* C8: classifier precedence: for every set of tokens, the empty one included,
\* the category is WPA if a token starts with "WPA", else WEP if the token
\* "WEP" is among them, else None if "None" is, else Other; it is always one
\* of the four.
C8_ClassifierPrecedence ==
    cpc = "done"
        => /\ crypt \in {"WPA", "WEP", "None", "Other"}
           /\ (crypt = "WPA") = (\E t \in TokensIn : StartsWith(t, WPA))
           /\ (crypt = "WEP") = (WEP \in TokensIn /\ ~\E t \in TokensIn : StartsWith(t, WPA))
           /\ (crypt = "None") = (/\ NoneToken \in TokensIn
                                  /\ WEP \notin TokensIn
                                  /\ ~\E t \in TokensIn : StartsWith(t, WPA))

\* C8 witness: a network with "WEP" and a longer token that starts with "WPA"
\* was classified WPA
C8_Witness ==
    /\ cpc = "done"
    /\ WEP \in TokensIn
    /\ \E t \in TokensIn : t # WPA /\ StartsWith(t, WPA)
    /\ crypt = "WPA"

----------------------------------------------------------------------------
(* The route segmenter *)

\* the coordinates of the waypoint at this second, as the output prints them
Printed(second) == <<route[second][2], route[second][1]>>

\* the segments the rule gives for the seconds t[i..], the current one being cur:
\* a gap above RouteGap to the previous second starts a new segment
RECURSIVE Segmented(_, _, _)
Segmented(t, i, cur) ==
    IF i > Len(t) THEN <<cur>>
    ELSE IF t[i] - t[i - 1] > RouteGap
    THEN <<cur>> \o Segmented(t, i + 1, <<Printed(t[i])>>)
    ELSE Segmented(t, i + 1, Append(cur, Printed(t[i])))

\* the segments of the route: the first waypoint starts the first segment
ExpectedSegments ==
    LET t == Sorted(DOMAIN route) IN
    IF t = <<>> THEN <<>> ELSE Segmented(t, 2, <<Printed(t[1])>>)

\* the segments the output holds from entry i on: the coordinates between a
\* segment opening and the next closing label; cur is <<>> outside a segment
\* and <<seg>> inside the segment whose coordinates so far are seg
RECURSIVE SegmentsFrom(_, _, _)
SegmentsFrom(out, i, cur) ==
    IF i > Len(out) THEN <<>>
    ELSE IF out[i].t = "open" THEN SegmentsFrom(out, i + 1, <<<<>>>>)
    ELSE IF out[i].t = "close"
    THEN cur \o SegmentsFrom(out, i + 1, <<>>)
    ELSE IF out[i].t = "coord" /\ cur # <<>>
    THEN SegmentsFrom(out, i + 1, <<Append(cur[1], <<out[i].lon, out[i].lat>>)>>)
    ELSE SegmentsFrom(out, i + 1, cur)

\* whether entry i lies between a segment opening and its closing label
InSegment(out, i) ==
    \E j \in 1..(i - 1) :
        /\ out[j].t = "open"
        /\ \A k \in (j + 1)..(i - 1) : out[k].t = "coord"
        /\ \E k \in (i + 1)..Len(out) :
              out[k].t = "close" /\ \A m \in (i + 1)..(k - 1) : out[m].t = "coord"

\* C9: segmentation gap rule: in ascending order of the seconds a new segment
\* starts exactly where the gap to the previous waypoint is above 1800 s, every
\* waypoint lies in exactly one segment and the order is kept: the output
\* holds the segments of the rule, [0,100] and [2000,2100] for 0, 100, 2000, 2100.
C9_SegmentationGapRule ==
    rpc = "done" => SegmentsFrom(output, 1, <<>>) = ExpectedSegments

\* C10: the first waypoint always starts a segment, whatever its second: every
\* coordinate of the route section lies between a segment opening and its
\* closing label.
C10_FirstWaypointOpens ==
    (rpc = "done" /\ DOMAIN route # {})
        => \A i \in 1..Len(output) : output[i].t = "coord" => InSegment(output, i)

----------------------------------------------------------------------------
(* The rendered document *)

\* the networks of the store that have a position
Qualifying == {k \in DOMAIN networks : Cardinality(DOMAIN gpsd[objs[networks[k]].gps]) > 0}

\* the sections of the categories in the document, in the order written
Sections == SelectSeq(target, LAMBDA part : part.kind = "<Folder>")

\* the route sections of the document
RouteSections == SelectSeq(target, LAMBDA part : part.kind = "Routes")

\* C11: empty output is well-formed: when no network of the store has a gps
\* position, the document written holds the four category sections with
\* count 0 and no placemark, and its route section holds neither a segment
\* opening nor a closing label.
C11_EmptyOutputWellFormed ==
    (kpc = "done" /\ Qualifying = {})
        => /\ Len(Sections) = 4
           /\ \A i \in 1..Len(Sections) : Sections[i].count = 0 /\ Sections[i].body = <<>>
           /\ Len(RouteSections) = 1
           /\ \A i \in 1..Len(RouteSections[1].body) :
                 RouteSections[1].body[i].t \notin {"open", "close"}

\* the network stored under key k, its position and its dwell in seconds
Net(k) == objs[networks[k]]

PositionOf(k) == <<gpsd[Net(k).gps]["avg-lat"], gpsd[Net(k).gps]["avg-lon"]>>

Dwell(k) == mktime(Net(k).lasttime) - mktime(Net(k).firsttime)

\* a pass of the loop of output_kml_fill_folders over a network with a position
VisitsQualifying == kpc = "fill" /\ visit # <<>> /\ Head(visit) \in Qualifying /\ visit' = Tail(visit)

\* C12: dwell-based route inclusion: a network with a position becomes a
\* waypoint of the route, under its last second, exactly if its last time is
\* less than 300 seconds after its first time; else the route is left as it is.
C12_DwellInclusion ==
    [][VisitsQualifying =>
         LET k == Head(visit) IN
         IF Dwell(k) < 300
         THEN route' = Put(route, mktime(Net(k).lasttime), PositionOf(k))
         ELSE route' = route]_vars

\* both sides of the boundary: a network with a dwell of 299 s is in the
\* route and one with a dwell of exactly 300 s is not
C12_Witness ==
    /\ kpc = "folders"
    /\ \E k \in Qualifying : Dwell(k) = 299 /\ mktime(Net(k).lasttime) \in DOMAIN route
    /\ \E k \in Qualifying : Dwell(k) = 300 /\ mktime(Net(k).lasttime) \notin DOMAIN route

\* the display name of the network stored under k: its essid, "" if it has none
DisplayName(k) == get_from_ssid(Net(k).ssid, "essid", <<>>)

\* each character of the name escaped once: '<', '>' and '&' by their entities
RECURSIVE EscapedOnce(_)
EscapedOnce(str) ==
    IF str = <<>> THEN <<>>
    ELSE (IF Head(str) = "<" THEN <<"&", "l", "t", ";">>
          ELSE IF Head(str) = ">" THEN <<"&", "g", "t", ";">>
          ELSE IF Head(str) = "&" THEN <<"&", "a", "m", "p", ";">>
          ELSE <<Head(str)>>) \o EscapedOnce(Tail(str))

\* the placemarks formatted so far, of all categories
Placemarks == UNION {{folders[c][i] : i \in 1..Len(folders[c])} : c \in DOMAIN folders}

\* C13: escaping: a placemark carries the display name of its network with each
\* '<', '>' and '&' of the name replaced by its entity and no character escaped
\* twice, and with --disable-names no placemark has a name field.
C13_Escaping ==
    \A pm \in Placemarks :
        LET k == pm.bssid IN
        /\ pm.essid = EscapedOnce(DisplayName(k))
        /\ disable_names => pm.name = <<>>
        /\ ~disable_names => pm.name = <<"<name>">> \o EscapedOnce(DisplayName(k)) \o <<"</name>">>

\* what an entry of the document is: the category of a category section, else its kind
Heading(part) == IF part.kind = "<Folder>" THEN part.crypt ELSE part.kind

\* C14: category ordering: the document is written in the order header, the
\* sections WPA, WEP, None, Other, each once and also when it has no placemark,
\* then the route section and the end; a document that is complete holds all of them.
C14_CategoryOrdering ==
    LET order == <<"<?xml>", "<kml>", "<Document>", "<name>", "<open>",
                   "WPA", "WEP", "None", "Other", "Routes", "</kml>">>
    IN
    /\ Len(target) <= Len(order)
    /\ \A i \in 1..Len(target) : Heading(target[i]) = order[i]
    /\ kpc = "done" => Len(target) = Len(order)

\* a complete document of a store with a WPA and a WEP network and none open
C14_Witness ==
    /\ kpc = "done"
    /\ Len(Sections) = 4
    /\ Len(Sections[1].body) = 1
    /\ Len(Sections[2].body) = 1
    /\ Sections[3].body = <<>>

\* the encryption tokens of the SSID records of the network stored under k
TokensOf(k) == UNION {Net(k).ssid[i].encryption : i \in 1..Len(Net(k).ssid)}

\* the category of the network stored under k, by the precedence of the classifier
CategoryOf(k) ==
    IF \E t \in TokensOf(k) : StartsWith(t, WPA) THEN "WPA"
    ELSE IF WEP \in TokensOf(k) THEN "WEP"
    ELSE IF NoneToken \in TokensOf(k) THEN "None"
    ELSE "Other"

\* the places (category, index) of the placemarks of the network stored under k
PlacesOf(k) ==
    UNION {{<<c, i>> : i \in {j \in 1..Len(folders[c]) : folders[c][j].bssid = k}} :
              c \in DOMAIN folders}

\* the networks that the loop of output_kml_fill_folders has passed
Visited == {k \in DOMAIN networks : \A i \in 1..Len(visit) : visit[i] # k}

\* C18: annotations and counts: every network with a position has exactly one
\* placemark, in the section of its category, and a network without one has
\* none; the count of a category is the number of placemarks of its section,
\* and the four counts add up to the number of networks with a position.
C18_AnnotationCount ==
    /\ kpc \in {"fill", "folders", "route", "done"}
         => /\ \A c \in DOMAIN folders : count[c] = Len(folders[c])
            /\ \A k \in Visited \cap Qualifying :
                  /\ Cardinality(PlacesOf(k)) = 1
                  /\ \A pl \in PlacesOf(k) : pl[1] = CategoryOf(k)
            /\ \A k \in DOMAIN networks \ (Visited \cap Qualifying) : PlacesOf(k) = {}
    /\ kpc = "done"
         => /\ \A i \in 1..4 : /\ Sections[i].count = Len(Sections[i].body)
                               /\ Sections[i].body = folders[Sections[i].crypt]
            /\ Sections[1].count + Sections[2].count + Sections[3].count + Sections[4].count
                 = Cardinality(Qualifying)

\* a complete document of a store with a network with a position, in the
\* section of the WEP networks, and a network without a position
C18_Witness ==
    /\ kpc = "done"
    /\ Cardinality(DOMAIN networks) = 2
    /\ Cardinality(Qualifying) = 1
    /\ Sections[2].count = 1

\* the networks with a position and a dwell below 300 s
ShortDwell == {k \in Qualifying : Dwell(k) < 300}

LastSecond(k) == mktime(Net(k).lasttime)

\* the coordinates in what output_kml_route has written
CoordinatesWritten == SelectSeq(output, LAMBDA e : e.t = "coord")

\* when output_kml_fill_folders has returned, the route holds one waypoint for
\* each last second of the networks of a short dwell, with the position of one
\* of them, and output_kml_route writes one coordinate for each
OnePerSecond ==
    /\ kpc \in {"folders", "route", "done"}
         => /\ DOMAIN route = {LastSecond(k) : k \in ShortDwell}
            /\ \A sec \in DOMAIN route :
                  \E k \in ShortDwell : LastSecond(k) = sec /\ route[sec] = PositionOf(k)
    /\ rpc = "done"
         => /\ Len(CoordinatesWritten) = Cardinality({LastSecond(k) : k \in ShortDwell})
            /\ Len(CoordinatesWritten) <= Cardinality(ShortDwell)

\* a network of a short dwell that is visited puts its position under its last
\* second, also when the route has a waypoint of that second already
LastVisitedWins ==
    (VisitsQualifying /\ Head(visit) \in ShortDwell)
        => /\ route'[LastSecond(Head(visit))] = PositionOf(Head(visit))
           /\ DOMAIN route' = DOMAIN route \cup {LastSecond(Head(visit))}
           /\ \A sec \in DOMAIN route \ {LastSecond(Head(visit))} : route'[sec] = route[sec]

\* C19: one waypoint per second: the route holds exactly one waypoint for each
\* distinct last second of the networks with a position and a dwell below 300 s;
\* of several networks of the same last second the one visited last gives the
\* position, so the route has as many coordinates as there are distinct last
\* seconds, which can be fewer than the networks of a short dwell.
C19_OneWaypointPerSecond == []OnePerSecond /\ [][LastVisitedWins]_vars

\* two networks of a short dwell at different positions share their last
\* second, and the route written has a single coordinate, that of the second
\* one visited
C19_Witness ==
    /\ kpc = "done"
    /\ Cardinality(ShortDwell) = 2
    /\ \A k \in ShortDwell : LastSecond(k) = 300
    /\ PositionOf(<<"7">>) # PositionOf(<<"7", "7">>)
    /\ Len(CoordinatesWritten) = 1
    /\ route[300] = PositionOf(<<"7">>)

----------------------------------------------------------------------------
(* The handlers of the parser *)

\* expat reports </SSID>, the SSID element being a child of a
\* wireless-network element, and the handler returns
SsidClosed ==
    /\ pc = "parse"
    /\ xml.open # <<>>
    /\ Head(xml.open) = "SSID"
    /\ parser.parents[1] = "wireless-network"
    /\ xml'.open = Tail(xml.open)
    /\ err' = ""

\* C15: SSID commit rule: at the end of an SSID element the SSID record is
\* appended to the network's SSID records if it has a field or a token (an
\* essid alone is enough) and is not appended if it has none; after it
\* there is no SSID record in the making.
C15_SsidCommitRule ==
    [][SsidClosed =>
         /\ objs'[parser.wn].ssid =
               IF DOMAIN parser.ssid.fields # {} \/ parser.ssid.encryption # {}
               THEN Append(objs[parser.wn].ssid,
                           [encryption |-> parser.ssid.encryption,
                            fields |-> parser.ssid.fields])
               ELSE objs[parser.wn].ssid
         /\ parser'.ssid.st # "dict"]_vars

\* the element that encloses the current one, and the one that encloses that
Parent == IF Len(parser.parents) >= 1 THEN parser.parents[1] ELSE ""

Grandparent == IF Len(parser.parents) >= 2 THEN parser.parents[2] ELSE ""

\* what the text `data` of the current element does to the network in the
\* making, parser.wn, when the handler returns
DispatchEffect(data) ==
    LET cur == parser.laststart
        wn == parser.wn
    IN
    IF Strip(data) = <<>>
    THEN UNCHANGED <<networks, objs, gpsd, parser>>
    ELSE IF err' # ""
    THEN UNCHANGED <<networks, objs, gpsd>>
    ELSE IF Parent = "gps-info" /\ Grandparent = "wireless-network"
    THEN /\ gpsd' = [gpsd EXCEPT ![objs[wn].gps] = Put(@, cur, ToNumber(data))]
         /\ objs' = objs
    ELSE IF Parent = "wireless-network" /\ Grandparent # "wireless-network"
            /\ cur \in {"BSSID", "channel", "manuf"}
    THEN /\ objs' = IF cur = "BSSID" THEN [objs EXCEPT ![wn].bssid = data]
                    ELSE IF cur = "channel" THEN [objs EXCEPT ![wn].channel = ToNumber(data)]
                    ELSE [objs EXCEPT ![wn].manuf = data]
         /\ gpsd' = gpsd
    ELSE UNCHANGED <<objs, gpsd>>

\* C16: depth-sensitive dispatch: text that is not blank changes the network
\* in the making in two contexts only: the current element is BSSID, channel
\* or manuf and its parent is wireless-network (the bssid, the channel as an
\* integer, the manufacturer), or the parent is gps-info and the grandparent
\* is wireless-network (the gps entry of the current element, as a number). In
\* any other nesting, a channel of a wireless-client among them, and for blank
\* text, the network is left as it is. (A wireless-network element directly
\* inside another one is no context of the first kind.)
C16_DepthSensitiveDispatch ==
    [][\A data \in Data : CharData(data) => DispatchEffect(data)]_vars

\* the channel of the network was set from its own channel element, and the
\* parser is in the channel element of one of its clients
C16_Witness ==
    /\ pc = "parse"
    /\ parser.laststart = "channel"
    /\ Parent = "wireless-client"
    /\ Grandparent = "wireless-network"
    /\ objs[parser.wn].channel = 7

\* while a file is parsed, laststart is the innermost open element and
\* parents lists the elements around it, the nearest first; below them lies
\* the "" that laststart is before the first element
StackMirrorsOpenElements ==
    (pc = "parse" /\ err = "")
        => <<parser.laststart>> \o parser.parents = xml.open \o <<"">>

\* netxml.parse starts every file with no element, no network and no SSID
FreshContext ==
    (pc = "main" /\ pc' = "parse")
        => /\ parser'.parents = <<>>
           /\ parser'.laststart = ""
           /\ parser'.wn = 0
           /\ parser'.ssid.st = "None"

\* the end of an element restores laststart and parents as they were just
\* before the element was opened: the state of the enclosing element
ClosingRestores ==
    (pc = "parse" /\ err' = "" /\ xml.open # <<>> /\ xml'.open = Tail(xml.open))
        => /\ parser'.laststart = Head(parser.parents)
           /\ parser'.parents = Tail(parser.parents)
           /\ <<parser'.laststart>> \o parser'.parents = Tail(xml.open) \o <<"">>

\* C17: ancestor stack: after any well-nested sequence of start and end tags of
\* a file the current element is the innermost open element and the stack
\* lists its ancestors, the parent first, then the grandparent; after an
\* element is closed both are what they were before it was opened; every file
\* starts with an empty stack, no network and no SSID in the making.
C17_AncestorStack ==
    /\ []StackMirrorsOpenElements
    /\ [][FreshContext]_vars
    /\ [][ClosingRestores]_vars

\* the parser is three elements deep, an element having been closed before
C17_Witness ==
    /\ pc = "parse"
    /\ err = ""
    /\ nev = 4
    /\ parser.laststart = "avg-lat"
    /\ parser.parents = <<"gps-info", "wireless-network", "">>

----------------------------------------------------------------------------
(* The cache decorator *)

\* the calls of one call of inner, in full, when backend.get returned got
CallsOfInner(got) ==
    IF got = None
    THEN <<Called("get", UniqueKey(args), "", got),
           Called("fn", <<>>, args, Fn(args)),
           Called("set", UniqueKey(args), "", Fn(args))>>
    ELSE <<Called("get", UniqueKey(args), "", got)>>

\* a call of inner starts with backend.get(unique_key); it goes on with fn
\* and backend.set(unique_key, value) exactly if the read returned None, and
\* returns what fn returned; else it returns what the read returned
HitMissProtocol ==
    trace # <<>>
        => LET full == CallsOfInner(trace[1].val) IN
           /\ Len(trace) <= Len(full)
           /\ \A i \in 1..Len(trace) : trace[i] = full[i]
           /\ ipc \in {"return", "idle"}
                => /\ trace = full
                   /\ value = IF trace[1].val = None THEN Fn(args) ELSE trace[1].val

\* with a backend that returns what was set: fn is invoked at most once under
\* a key whose result is not None, and a fn that returns None is invoked and
\* stored again at every call
OncePerKey ==
    backend = "dict"
        => \A a \in Arguments :
              IF Fn(a) # None
              THEN CountOf(invocations, UniqueKey(a)) <= 1
              ELSE ipc = "idle" => CountOf(invocations, UniqueKey(a)) = CountOf(calls, a)

\* C20: cache decorator hit/miss protocol: every call of the decorated
\* function first reads backend.get(unique_key); fn is invoked and
\* backend.set(unique_key, value) is called exactly when the read returns None,
\* else the cached value is returned and neither is called. With a backend
\* that returns what was set, fn is invoked at most once for each key whose
\* result is not None, and a fn whose result is None is invoked and stored
\* again at every call.
C20_HitMissProtocol == HitMissProtocol /\ OncePerKey

\* a hit after misses: the third call finds the value that the second stored,
\* the first having stored None
C20_Witness ==
    /\ backend = "dict"
    /\ ipc = "return"
    /\ Len(trace) = 1
    /\ trace[1].val # None
    /\ CountOf(calls, "0") = 1
    /\ CountOf(invocations, UniqueKey("0")) = 1
    /\ Total(calls) = 3

====
